---- MODULE Spec2Model ----
(***************************************************************************)
(* Model of summariser_app.py, a Streamlit script.  Streamlit executes the *)
(* script from the top once per user interaction ("rerun"), to its end or  *)
(* until the next interaction stops the run at one of its st.* calls;      *)
(* st.session_state is the only data that survives from one run to the     *)
(* next, and the widgets hand the script their current values: an          *)
(* uploader hands over its file, readable from the start, on every run     *)
(* for as long as the file stays in it, and a widget that a run does not   *)
(* show loses its value when that run reaches the end of the script (not   *)
(* when the run is stopped).  Strings are sequences of one-character       *)
(* strings, so that concatenation, rfind and slicing are computed and not  *)
(* assumed.                                                                *)
(***************************************************************************)
EXTENDS Integers, Sequences, FiniteSets, TLC

VARIABLES
    GEMINI_API_KEY,      \* line 12: os.getenv("GEMINI_API_KEY")
    set_page_config_raises,
                         \* line 24 in this installation: Streamlit before 1.46
                         \* raises StreamlitAPIException when an element (the
                         \* error of line 16) was shown before st.set_page_config
    full_notes_text,     \* st.session_state.full_notes_text
    summarized_text,     \* st.session_state.summarized_text
    uploaded_file_name,  \* st.session_state.uploaded_file_name
    doc_type,            \* value of the st.radio widget
    uploaded_file,       \* value of the st.file_uploader widget that is shown
    hidden_file,         \* value Streamlit still holds for the st.file_uploader
                         \* of the other document type
    messages,            \* error and warning banners shown by the last run
    requests,            \* model.generate_content calls made by the last run
    prompt,              \* prompt passed to generate_content by the last run
    download,            \* st.download_button rendered by the last run
    uncaught,            \* the last run ended by an exception that the script
                         \* did not catch
    event,               \* the interaction that caused the last run, the backend
                         \* outcome it met and where the run ended
    text_source,         \* history: name of the file full_notes_text came from
    summary_source       \* history: name of the file whose text was summarised

vars == <<GEMINI_API_KEY, set_page_config_raises, full_notes_text, summarized_text,
          uploaded_file_name, doc_type, uploaded_file, hidden_file, messages,
          requests, prompt, download, uncaught, event, text_source, summary_source>>

session == <<full_notes_text, summarized_text, uploaded_file_name>>

-----------------------------------------------------------------------------
(* Bounds and input sets *)

MaxUnits == 2

PDF == "PDF (.pdf)"
DOCX == "Word Document (.docx)"
DocTypes == {PDF, DOCX}

Str_pdf == <<".", "p", "d", "f">>
Str_docx == <<".", "d", "o", "c", "x">>
Str_biology101 == <<"b", "i", "o", "l", "o", "g", "y", "1", "0", "1">>

\* Names the uploader of each type lets through (type="pdf" / type="docx").
PdfNames == {Str_biology101 \o Str_pdf}
DocxNames == {<<"a", ".", "b">> \o Str_docx}

\* Text of the i-th page (page.get_text()) or paragraph (para.text) of the
\* documents uploaded: "a", "b", "a", ...
UnitText(i) == IF i % 2 = 1 THEN <<"a">> ELSE <<"b">>

\* Units of a document of n units.
Units(n) == [i \in 1..n |-> UnitText(i)]

\* What the parsing library yields for some file bytes: the units it hands
\* over, in order, and whether it then raises instead of ending normally.
\* The documents uploaded are the empty one, one of MaxUnits units, and one
\* whose reading fails after MaxUnits - 1 units.
FileBytes ==
    {[units |-> Units(0), raises |-> FALSE],
     [units |-> Units(MaxUnits), raises |-> FALSE],
     [units |-> Units(MaxUnits - 1), raises |-> TRUE]}

NoFile == [present |-> FALSE, name |-> <<>>, units |-> <<>>, raises |-> FALSE]

UploadableFiles(dt) ==
    {[present |-> TRUE, name |-> n, units |-> b.units, raises |-> b.raises] :
        n \in (IF dt = PDF THEN PdfNames ELSE DocxNames), b \in FileBytes}

\* os.getenv: None, or a string that may be empty.
EnvValues == {[isNone |-> TRUE, str |-> ""],
              [isNone |-> FALSE, str |-> ""],
              [isNone |-> FALSE, str |-> "key"]}

\* Outcomes of model.generate_content(prompt) followed by response.text.
SummaryTexts == {<<>>, <<"S">>}
NoCall == [called |-> FALSE, raises |-> FALSE, text |-> <<>>]
Backends == {[called |-> TRUE, raises |-> TRUE, text |-> <<>>]}
            \cup {[called |-> TRUE, raises |-> FALSE, text |-> s] : s \in SummaryTexts}

-----------------------------------------------------------------------------
(* Text extraction functions, lines 32-68 *)

RECURSIVE pdf_pages(_, _, _)
pdf_pages(text, pages, i) ==
    IF i > Len(pages) THEN text
    ELSE pdf_pages(text \o pages[i], pages, i + 1)

\* Each extractor accumulates text unit by unit (lines 44-45, 63-64); when the
\* library raises, the except clause reports the error and returns "" in place
\* of what was accumulated (lines 46-48, 65-67).  error tells whether the
\* except clause was entered.
extract_text_pdf(file_bytes) ==
    LET text == pdf_pages(<<>>, file_bytes.units, 1)
    IN  IF file_bytes.raises
        THEN [text |-> <<>>, error |-> TRUE]
        ELSE [text |-> text, error |-> FALSE]

docx_append_no_newline(text, para) == text \o para

docx_append(text, para) == text \o para \o <<"\n">>

RECURSIVE docx_paragraphs(_, _, _)
docx_paragraphs(text, paragraphs, i) ==
    IF i > Len(paragraphs) THEN text
    ELSE docx_paragraphs(docx_append(text, paragraphs[i]), paragraphs, i + 1)

extract_text_docx(file_bytes) ==
    LET text == docx_paragraphs(<<>>, file_bytes.units, 1)
    IN  IF file_bytes.raises
        THEN [text |-> <<>>, error |-> TRUE]
        ELSE [text |-> text, error |-> FALSE]

-----------------------------------------------------------------------------
(* Helpers of the main script *)

\* Python truthiness of os.getenv's result (lines 15, 114, 132).
PyTruthy(v) == ~v.isNone /\ v.str # ""

\* The name `model` is bound only in the else branch of line 15.
model_defined == PyTruthy(GEMINI_API_KEY)

\* Lines 15-24: without a key line 16 shows an element before line 24 calls
\* st.set_page_config, which then raises where Streamlit requires it to be
\* the first command; the run ends there and lines 25-155 do not execute.
page_config_error == ~PyTruthy(GEMINI_API_KEY) /\ set_page_config_raises

\* Lines 99-102.
Extract(dt, file_bytes) ==
    IF dt = PDF THEN extract_text_pdf(file_bytes) ELSE extract_text_docx(file_bytes)

\* Line 104.
StoredFileName(file, old) == file.name

\* Line 114.
SummarizeGuard(text, key) == text # <<>> /\ PyTruthy(key)

\* Lines 118-125: five adjacent literals and the f-string with the notes.
PromptTemplate ==
    <<"Please provide a concise and clear summary of the following student notes. ",
      "Focus on the main concepts, key facts, and important details. ",
      "Organize the summary logically, perhaps using bullet points or short paragraphs. ",
      "Ensure the summary is easy to understand for a student revising the material. ",
      "Here are the notes:\n\n">>

BuildPrompt(text) == PromptTemplate \o text

\* Line 131.
SummaryOnError(old) == <<>>

\* str.rfind(ch), as a 1-based index; 0 when ch does not occur.
rfind(p, ch) ==
    LET hits == {i \in 1..Len(p) : p[i] = ch}
    IN  IF hits = {} THEN 0 ELSE CHOOSE i \in hits : \A j \in hits : j <= i

find(p, ch) ==
    LET hits == {i \in 1..Len(p) : p[i] = ch}
    IN  IF hits = {} THEN 0 ELSE CHOOSE i \in hits : \A j \in hits : i <= j

RECURSIVE splitext_scan(_, _, _)
splitext_scan(p, filenameIndex, dotIndex) ==
    IF filenameIndex < dotIndex
    THEN IF p[filenameIndex] # "."
         THEN <<SubSeq(p, 1, dotIndex - 1), SubSeq(p, dotIndex, Len(p))>>
         ELSE splitext_scan(p, filenameIndex + 1, dotIndex)
    ELSE <<p, <<>>>>

splitext_first_dot(p) ==
    LET dotIndex == find(p, ".")
    IN  IF dotIndex > 0
        THEN <<SubSeq(p, 1, dotIndex - 1), SubSeq(p, dotIndex, Len(p))>>
        ELSE <<p, <<>>>>

\* os.path.splitext as called on line 147 (posixpath: sep "/", extsep ".").
splitext(p) ==
    LET sepIndex == rfind(p, "/")
        dotIndex == rfind(p, ".")
    IN  IF dotIndex > sepIndex
        THEN splitext_scan(p, sepIndex + 1, dotIndex)
        ELSE <<p, <<>>>>

Str_summarized_notes_ ==
    <<"s", "u", "m", "m", "a", "r", "i", "z", "e", "d", "_",
      "n", "o", "t", "e", "s", "_">>
Str_txt == <<".", "t", "x", "t">>

NoDownload == [offered |-> FALSE, data |-> <<>>, file_name |-> <<>>]

\* Lines 140-151.
Render(summary, name) ==
    IF summary # <<>>
    THEN [offered |-> TRUE, data |-> summary,
          file_name |-> Str_summarized_notes_ \o splitext(name)[1] \o Str_txt]
    ELSE NoDownload

-----------------------------------------------------------------------------
(* Where a run of the script can end.  Streamlit stops a run once another   *)
(* interaction (or the Stop button) has come in while the run was busy, for *)
(* instance while line 100 parses the document or line 126 waits for the    *)
(* backend.  The run is stopped at its next yield point: an st.* call,      *)
(* before it shows anything, or an access to st.session_state, before it    *)
(* reads or writes.  There a control exception is raised that derives from  *)
(* BaseException, so no "except Exception" of the script catches it, and    *)
(* whatever st.session_state holds by then stays, as do the values of the   *)
(* widgets, those of widgets the run did not show included.  Yield points   *)
(* that leave the same state behind when the run stops at them form one     *)
(* stop:                                                                    *)
(*   L16_91    lines 16-26, 73-78, 81-91, and the write of line 100 or 102  *)
(*             when the extractor showed no error                           *)
(*   L47_66    st.error inside the extractor (47, 66), which line 100 or    *)
(*             102 is still calling                                         *)
(*   L100      the write of line 100 or 102 after the extractor has shown   *)
(*             its error and returned                                       *)
(*   L104      the write of line 104: the text is stored, the name is not   *)
(*   L110      the read of line 106 and st.warning of line 110, the text    *)
(*             stored being empty                                           *)
(*   L106_135  the read of line 106 with a text that is not empty, lines    *)
(*             107-108, st.button, the read of line 114, st.spinner, the    *)
(*             read of line 124, and the banners of lines 133 and 135       *)
(*   L127      the write of line 127: the backend has answered              *)
(*   L130      st.error in the except clause                                *)
(*   L131      the write of line 131: the error of line 130 is shown        *)
(*   L140_147  the reads of lines 140-147, st.markdown of 141 and 143,      *)
(*             st.write and st.download_button                              *)
(*   L155      st.info of line 155, after everything else                   *)
(*   End       the run reaches the end of the script                        *)
(* A run stopped at line 155, or with an empty Summary at line 140, leaves  *)
(* what a run that reaches the end leaves, unless Streamlit holds a file    *)
(* for the uploader that is not shown: only the run that reaches the end    *)
(* drops it.  These stops are told apart from End in that case only.        *)
(* The banners followed are the errors and warnings; st.success and         *)
(* st.info, and the error of line 16 that every run repeats, are not.       *)

Stops == {"L16_91", "L47_66", "L100", "L104", "L110", "L106_135",
          "L127", "L130", "L131", "L140_147", "L155", "End"}

-----------------------------------------------------------------------------
(* One run of the script, lines 11-155, on the widget values dt (radio),   *)
(* file (the uploader shown), clicked (button), the file hidden that is    *)
(* held for the other uploader, the backend outcome b that                 *)
(* generate_content produces if it is called, and the place where the run  *)
(* ends.  on_path tells whether the run passes that place at all.          *)

Script(dt, file, hidden, clicked, b, stop) ==
    LET \* lines 94-110
        ex == Extract(dt, file)
        extracted == file.present /\ stop \notin {"L16_91", "L47_66"}
        text_written == extracted /\ stop # "L100"
        name_written == text_written /\ stop # "L104"
        text1 == IF text_written THEN ex.text ELSE full_notes_text
        name1 == IF name_written THEN StoredFileName(file, uploaded_file_name)
                 ELSE uploaded_file_name
        tsrc1 == IF text_written THEN file.name ELSE text_source
        upmsgs == (IF extracted /\ dt = PDF /\ ex.error THEN {"error_pdf"} ELSE {})
                  \cup (IF extracted /\ dt = DOCX /\ ex.error THEN {"error_docx"} ELSE {})
                  \cup (IF name_written /\ text1 = <<>> /\ stop # "L110"
                        THEN {"warning_no_text"} ELSE {})
        \* lines 113-135
        pressed == clicked
                     /\ stop \in {"L127", "L130", "L131", "L140_147", "L155", "End"}
        guard == pressed /\ SummarizeGuard(text1, GEMINI_API_KEY)
        sent == guard /\ model_defined
        failed == guard /\ (~model_defined \/ b.raises)
        answered == guard /\ ~failed
        summary_written == answered /\ stop # "L127"
        error_shown == failed /\ stop # "L130"
        cleared == failed /\ stop \notin {"L130", "L131"}
        summary1 == IF summary_written THEN b.text
                    ELSE IF cleared THEN SummaryOnError(summarized_text)
                    ELSE summarized_text
        ssrc1 == IF summary_written THEN (IF b.text # <<>> THEN tsrc1 ELSE <<>>)
                 ELSE IF cleared THEN <<>>
                 ELSE summary_source
        summsgs == IF ~pressed THEN {}
                   ELSE IF guard THEN (IF error_shown THEN {"error_gemini"} ELSE {})
                   ELSE IF ~PyTruthy(GEMINI_API_KEY) THEN {"error_no_key"}
                   ELSE {"warning_upload_first"}
        \* lines 140-151
        rendered == stop \in {"L155", "End"}
        on_path ==
            CASE stop \in {"L47_66", "L100"} -> file.present /\ ex.error
              [] stop = "L104" -> file.present
              [] stop = "L110" -> file.present /\ text1 = <<>>
              [] stop = "L127" -> answered
              [] stop \in {"L130", "L131"} -> failed
              [] stop = "L140_147" -> summary1 # <<>> \/ hidden.present
              [] stop = "L155" -> hidden.present
              [] OTHER -> TRUE
    IN  IF page_config_error
        THEN [on_path |-> stop = "L16_91",
              text |-> full_notes_text, name |-> uploaded_file_name,
              summary |-> summarized_text,
              text_source |-> text_source, summary_source |-> summary_source,
              messages |-> {}, requests |-> 0, prompt |-> <<>>,
              backend |-> NoCall, download |-> NoDownload,
              hidden |-> hidden, uncaught |-> TRUE]
        ELSE [on_path |-> on_path,
              text |-> text1, name |-> name1, summary |-> summary1,
              text_source |-> tsrc1, summary_source |-> ssrc1,
              messages |-> upmsgs \cup summsgs,
              requests |-> IF sent THEN 1 ELSE 0,
              prompt |-> IF sent THEN BuildPrompt(text1) ELSE <<>>,
              backend |-> IF sent THEN b ELSE NoCall,
              download |-> IF rendered THEN Render(summary1, name1) ELSE NoDownload,
              hidden |-> IF stop = "End" THEN NoFile ELSE hidden,
              uncaught |-> FALSE]

Rerun(kind, dt, file, hidden, clicked, b) ==
    \E stop \in Stops :
        LET r == Script(dt, file, hidden, clicked, b, stop)
        IN  /\ r.on_path
            /\ full_notes_text' = r.text
            /\ uploaded_file_name' = r.name
            /\ summarized_text' = r.summary
            /\ text_source' = r.text_source
            /\ summary_source' = r.summary_source
            /\ messages' = r.messages
            /\ requests' = r.requests
            /\ prompt' = r.prompt
            /\ download' = r.download
            /\ uncaught' = r.uncaught
            /\ doc_type' = dt
            /\ uploaded_file' = file
            /\ hidden_file' = r.hidden
            /\ event' = [kind |-> kind, backend |-> r.backend, stop |-> stop]
            /\ UNCHANGED <<GEMINI_API_KEY, set_page_config_raises>>

-----------------------------------------------------------------------------
(* Initial state: the first run of the script in a new session, lines      *)
(* 72-78 with the radio at index 0 and nothing uploaded or clicked.  Where *)
(* line 24 raises, the first run ends there, like every later one: no      *)
(* field of st.session_state is set (shown as empty) and no widget is      *)
(* ever shown.                                                             *)

Init ==
    /\ GEMINI_API_KEY \in EnvValues
    /\ set_page_config_raises \in (IF PyTruthy(GEMINI_API_KEY) THEN {FALSE} ELSE BOOLEAN)
    /\ full_notes_text = <<>>
    /\ summarized_text = <<>>
    /\ uploaded_file_name = <<>>
    /\ doc_type = PDF
    /\ uploaded_file = NoFile
    /\ hidden_file = NoFile
    /\ messages = {}
    /\ requests = 0
    /\ prompt = <<>>
    /\ download = NoDownload
    /\ uncaught = page_config_error
    /\ event = [kind |-> "Start", backend |-> NoCall,
                stop |-> IF page_config_error THEN "L16_91" ELSE "End"]
    /\ text_source = <<>>
    /\ summary_source = <<>>

(* User interactions with the widgets of lines 81-144, which exist only    *)
(* where runs get past line 24.  Each one causes one run of the script,    *)
(* which the next interaction may stop before it reaches the end.          *)

\* Lines 81-91: the radio changes; the two uploaders are different widgets,
\* and the one now shown has the file Streamlit still holds for it, if any.
SelectFormat ==
    /\ ~page_config_error
    /\ \E dt \in DocTypes \ {doc_type} :
          Rerun("SelectFormat", dt, hidden_file, uploaded_file, FALSE, NoCall)

\* Lines 88-110: a file is put into the uploader that is shown.
Upload ==
    /\ ~page_config_error
    /\ \E file \in UploadableFiles(doc_type) :
          Rerun("Upload", doc_type, file, hidden_file, FALSE, NoCall)

\* The file is taken out of the uploader.
RemoveFile ==
    /\ ~page_config_error
    /\ uploaded_file.present
    /\ Rerun("RemoveFile", doc_type, NoFile, hidden_file, FALSE, NoCall)

\* Line 113: the button is pressed; the uploader keeps its file.
Summarize ==
    /\ ~page_config_error
    /\ \E b \in Backends :
          Rerun("Summarize", doc_type, uploaded_file, hidden_file, TRUE, b)

\* Line 144: the download button is pressed, which only reruns the script.
Download ==
    /\ download.offered
    /\ Rerun("Download", doc_type, uploaded_file, hidden_file, FALSE, NoCall)

Next == SelectFormat \/ Upload \/ RemoveFile \/ Summarize \/ Download

Spec == Init /\ [][Next]_vars

-----------------------------------------------------------------------------
(* Vocabulary of the properties, stated without the operators above *)

RECURSIVE Concat(_)
Concat(units) ==
    IF units = <<>> THEN <<>> ELSE Head(units) \o Concat(Tail(units))

RECURSIVE EachFollowedByNewline(_)
EachFollowedByNewline(units) ==
    IF units = <<>> THEN <<>>
    ELSE Head(units) \o <<"\n">> \o EachFollowedByNewline(Tail(units))

\* The text a document of the given type holds, "" when it cannot be read.
DocumentText(dt, file) ==
    IF file.raises THEN <<>>
    ELSE IF dt = DOCX THEN EachFollowedByNewline(file.units)
    ELSE Concat(file.units)

\* name[i] is the dot that starts the final extension: nothing but plain
\* characters follow it, and the file name has a character other than a dot
\* before it (a name such as ".pdf" is all name and no extension).
StartsFinalExtension(name, i) ==
    /\ name[i] = "."
    /\ \A j \in (i + 1)..Len(name) : name[j] \notin {".", "/"}
    /\ \E k \in 1..(i - 1) :
          name[k] # "." /\ \A m \in k..i : name[m] # "/"

WithoutFinalExtension(name) ==
    IF \E i \in 1..Len(name) : StartsFinalExtension(name, i)
    THEN SubSeq(name, 1, (CHOOSE i \in 1..Len(name) : StartsFinalExtension(name, i)) - 1)
    ELSE name

Configured == ~GEMINI_API_KEY.isNone /\ GEMINI_API_KEY.str # ""

\* The extractor called by the last run has returned (lines 100, 102).
ExtractorReturned == uploaded_file.present /\ event.stop \notin {"L16_91", "L47_66"}

\* The last run executed the write of line 100 or 102.
TextStored == ExtractorReturned /\ event.stop # "L100"

\* The last run executed the write of line 104.
NameStored == TextStored /\ event.stop # "L104"

\* The last run passed the display block, lines 140-151.
Rendered == event.stop \in {"L155", "End"} /\ ~uncaught

-----------------------------------------------------------------------------
(* Properties *)

\* C1: an Upload whose extractor returns the empty string leaves
\* ExtractedText, Summary and filename exactly as they were before it.
C1_FailedUploadLeavesState ==
    [][(/\ event'.kind = "Upload"
        /\ ExtractorReturned'
        /\ DocumentText(doc_type', uploaded_file') = <<>>)
          => session' = session]_vars

\* C2: with text stored and a credential configured, a Summarize whose
\* backend call raises ends with Summary empty, ExtractedText and filename
\* unchanged, after exactly one request.
C2_FailedSummarizeClears ==
    [][(/\ event'.kind = "Summarize"
        /\ full_notes_text # <<>>
        /\ Configured
        /\ event'.backend.called
        /\ event'.backend.raises)
          => /\ summarized_text' = <<>>
             /\ full_notes_text' = full_notes_text
             /\ uploaded_file_name' = uploaded_file_name
             /\ requests' = 1]_vars

\* C3: a Summarize with no text stored, or with no credential configured,
\* changes none of the three fields, sends no request and raises nothing.
C3_GuardedSummarizeIsNoOp ==
    [][(/\ event'.kind = "Summarize"
        /\ (full_notes_text = <<>> \/ ~Configured))
          => /\ session' = session
             /\ requests' = 0
             /\ ~event'.backend.called
             /\ "error_gemini" \notin messages'
             /\ ~uncaught']_vars

\* C4: with text T stored and a credential configured, a Summarize sends
\* exactly one request, whose prompt is the template followed by T, and when
\* the backend returns S the Summary is S; ExtractedText and filename stay.
C4_SummarizeStoresResponse ==
    [][(/\ event'.kind = "Summarize"
        /\ full_notes_text # <<>>
        /\ Configured)
          => /\ requests' = 1
             /\ event'.backend.called
             /\ prompt' = PromptTemplate \o full_notes_text
             /\ (~event'.backend.raises => summarized_text' = event'.backend.text)
             /\ full_notes_text' = full_notes_text
             /\ uploaded_file_name' = uploaded_file_name]_vars

\* C5: whenever the display block has run, a download is offered exactly
\* when the Summary is non-empty; it holds the Summary, and its name is
\* "summarized_notes_" + the stored filename without its final extension +
\* ".txt".
C5_DownloadNamedAfterFile ==
    /\ download.offered => Rendered
    /\ Rendered =>
        /\ download.offered <=> summarized_text # <<>>
        /\ download.offered =>
              /\ download.data = summarized_text
              /\ download.file_name =
                    Str_summarized_notes_ \o WithoutFinalExtension(uploaded_file_name)
                        \o Str_txt
        /\ (download.offered /\ uploaded_file_name = Str_biology101 \o Str_pdf) =>
              download.file_name = Str_summarized_notes_ \o Str_biology101 \o Str_txt

C5_Witness ==
    /\ Rendered
    /\ download.offered
    /\ download.data = <<"S">>
    /\ uploaded_file_name = <<"a", ".", "b", ".", "d", "o", "c", "x">>
    /\ download.file_name = Str_summarized_notes_ \o <<"a", ".", "b">> \o Str_txt

\* C6: whenever a run has called the extractor of either type on a document
\* that cannot be read to its end, the failure was caught inside the
\* extractor: no exception ended the run, the error banner of the extractor
\* is shown, and the text the call returned, once stored, is empty.
C6_ExtractionFailureIsCaught ==
    (uploaded_file.present /\ uploaded_file.raises /\ event.stop # "L16_91") =>
        /\ ~uncaught
        /\ (IF doc_type = PDF THEN "error_pdf" ELSE "error_docx") \in messages
        /\ TextStored => full_notes_text = <<>>

\* C7: a well-formed Word document yields each paragraph followed by a
\* newline, in order; a well-formed PDF yields its page texts in order with
\* nothing between them.
C7_ExtractionConcatenatesInOrder ==
    (TextStored /\ ~uploaded_file.raises) =>
        full_notes_text =
            IF doc_type = DOCX THEN EachFollowedByNewline(uploaded_file.units)
            ELSE Concat(uploaded_file.units)

C7_Witness ==
    /\ doc_type = DOCX
    /\ TextStored /\ ~uploaded_file.raises
    /\ uploaded_file.units = << <<"a">>, <<"b">> >>
    /\ full_notes_text = <<"a", "\n", "b", "\n">>

\* C8: changing the document type changes none of the three fields, and an
\* Upload that gets to line 100 or 102 stores what the extractor of the type
\* selected at that time yields.
C8_SelectFormatOnlyPicksExtractor ==
    [][/\ event'.kind = "SelectFormat" =>
            (session' = session /\ doc_type' # doc_type)
       /\ event'.kind = "Upload" =>
            /\ doc_type' = doc_type
            /\ TextStored' =>
                  full_notes_text' =
                      (IF doc_type = PDF THEN extract_text_pdf(uploaded_file')
                       ELSE extract_text_docx(uploaded_file')).text
            /\ (ExtractorReturned' /\ uploaded_file'.raises) =>
                  (IF doc_type = PDF THEN "error_pdf" ELSE "error_docx")
                      \in messages']_vars

\* C9: an Upload whose extraction is non-empty stores the new text and the
\* new name, and leaves the Summary.
C9_UploadOverwritesTextAndName ==
    [][(/\ event'.kind = "Upload"
        /\ ExtractorReturned'
        /\ DocumentText(doc_type', uploaded_file') # <<>>)
          => /\ full_notes_text' = DocumentText(doc_type', uploaded_file')
             /\ uploaded_file_name' = uploaded_file'.name
             /\ summarized_text' = summarized_text]_vars

\* C10: whenever a download is offered, the stored filename is non-empty and
\* is the name of the document whose text produced the current Summary.
C10_DownloadNamedAfterSummarisedFile ==
    download.offered =>
        /\ uploaded_file_name # <<>>
        /\ uploaded_file_name = summary_source

====
